---- MODULE Spec2Model ----
(***************************************************************************)
(* Typed bytes (pytypedbytes/typedbytes.py): the type registry, the        *)
(* recursive encode/decode engine and the streaming sessions               *)
(* (iterdump / iterload) over one byte stream.                             *)
(*                                                                         *)
(* A Python value is a record [k |-> kind, v |-> payload]:                 *)
(*   bytearray, str      v = sequence of bytes                             *)
(*   unicode             v = sequence of code points                       *)
(*   bool, int, long     v = integer [neg, mag] (mag: big-endian base-256  *)
(*                           magnitude without leading zeros)              *)
(*   float               v = [s, e, m]: sign, 11-bit exponent and the 52   *)
(*                           mantissa bits as <<4 bits, 6 bytes>>          *)
(*   tuple, namedtuple, list, set   v = sequence of values                 *)
(*   dict                v = sequence of <<key, value>> pairs              *)
(*   NoneType, EndOfList, function, slice, NoValue   v = <<>>              *)
(***************************************************************************)
EXTENDS Integers, Sequences, FiniteSets, TLC

\* buf      the bytes of the stream fp, in the order written
\* rpos     how many of them the reader side has consumed
\* flushed  how many of them had been written when fp.flush() was last called
\* wtypes, rtypes   the registry of the writer side and of the reader side
\* wstate   the iterdump coroutine: "running", "failed" (an exception left it)
\*          or "closed"
\* rstate   the iterload generator: "running" or "finished"
\* sent     the values written in full, in order
\* torn     whether a write that failed left bytes of its value on the stream
\* recv     the values read, in order
\* last     the last call: what it was given, what it returned or raised
\* quota    how many more writing calls the callers make
\* defs     the Type definitions the callers have made, in order: the registry
\*          "made" is basic_types + these
VARIABLES buf, rpos, flushed, wtypes, rtypes, wstate, rstate, sent, torn, recv, last,
          quota, defs

vars == <<buf, rpos, flushed, wtypes, rtypes, wstate, rstate, sent, torn, recv, last,
          quota, defs>>

(***************************************************************************)
(* Integers of arbitrary size (Python int / long) and struct's fixed-width *)
(* big-endian two's-complement fields.                                     *)
(***************************************************************************)
RECURSIVE StripZeros(_)
StripZeros(s) ==
    IF s = <<>> THEN <<>>
    ELSE IF s[1] = 0 THEN StripZeros(Tail(s)) ELSE s

RECURSIVE NatBytes(_)
NatBytes(n) == IF n = 0 THEN <<>> ELSE Append(NatBytes(n \div 256), n % 256)

Big(n) == IF n < 0 THEN [neg |-> TRUE, mag |-> NatBytes(0 - n)]
                   ELSE [neg |-> FALSE, mag |-> NatBytes(n)]

Pow2(w) == [neg |-> FALSE, mag |-> <<128>> \o [i \in 1..(w - 1) |-> 0]]

NegPow2(w) == [neg |-> TRUE, mag |-> <<128>> \o [i \in 1..(w - 1) |-> 0]]

MagLt(a, b) ==
    \/ Len(a) < Len(b)
    \/ /\ Len(a) = Len(b)
       /\ \E i \in 1..Len(a) : a[i] < b[i] /\ \A j \in 1..(i - 1) : a[j] = b[j]

BigLt(a, b) ==
    IF a.neg /\ ~b.neg THEN TRUE
    ELSE IF ~a.neg /\ b.neg THEN FALSE
    ELSE IF a.neg THEN MagLt(b.mag, a.mag)
    ELSE MagLt(a.mag, b.mag)

PadLeft(s, w) == [i \in 1..w |-> IF i <= w - Len(s) THEN 0 ELSE s[i - (w - Len(s))]]

Invert(s) == [i \in 1..Len(s) |-> 255 - s[i]]

RECURSIVE AddOne(_)
AddOne(s) ==
    IF s = <<>> THEN <<>>
    ELSE IF s[Len(s)] < 255 THEN [s EXCEPT ![Len(s)] = s[Len(s)] + 1]
    ELSE Append(AddOne(SubSeq(s, 1, Len(s) - 1)), 0)

TwosComplement(s) == AddOne(Invert(s))

\* Struct.pack for '>b', '>i', '>q' (w = 1, 4, 8) of an integer in range.
StructPack(w, n) ==
    IF n.neg THEN TwosComplement(PadLeft(n.mag, w)) ELSE PadLeft(n.mag, w)

\* Struct.unpack for '>b', '>i', '>q'.
StructUnpack(s) ==
    IF s[1] >= 128 THEN [neg |-> TRUE, mag |-> StripZeros(TwosComplement(s))]
    ELSE [neg |-> FALSE, mag |-> StripZeros(s)]

\* The count a non-negative 32-bit size stands for.
RECURSIVE MagValue(_)
MagValue(s) == IF s = <<>> THEN 0 ELSE MagValue(SubSeq(s, 1, Len(s) - 1)) * 256 + s[Len(s)]

(***************************************************************************)
(* IEEE 754 doubles: double_struct = StreamStruct('>d').                   *)
(***************************************************************************)
DoublePack(f) ==
    <<f.s * 128 + (f.e \div 16), (f.e % 16) * 16 + f.m[1]>> \o Tail(f.m)

DoubleUnpack(s) ==
    [s |-> s[1] \div 128,
     e |-> (s[1] % 128) * 16 + (s[2] \div 16),
     m |-> <<s[2] % 16>> \o SubSeq(s, 3, 8)]

ZeroMantissa == <<0, 0, 0, 0, 0, 0, 0>>

IsNaN(f) == f.e = 2047 /\ f.m # ZeroMantissa

IsZeroFloat(f) == f.e = 0 /\ f.m = ZeroMantissa

(***************************************************************************)
(* UTF-8 (unicode.encode('utf_8') / bytearray.decode('utf_8')).            *)
(***************************************************************************)
Utf8Char(c) ==
    IF c < 128 THEN <<c>>
    ELSE IF c < 2048 THEN <<192 + (c \div 64), 128 + (c % 64)>>
    ELSE IF c < 65536
        THEN <<224 + (c \div 4096), 128 + ((c \div 64) % 64), 128 + (c % 64)>>
    ELSE <<240 + (c \div 262144), 128 + ((c \div 4096) % 64),
           128 + ((c \div 64) % 64), 128 + (c % 64)>>

RECURSIVE Utf8Encode(_)
Utf8Encode(cps) ==
    IF cps = <<>> THEN <<>> ELSE Utf8Char(Head(cps)) \o Utf8Encode(Tail(cps))

IsCont(s, i) == i <= Len(s) /\ s[i] >= 128 /\ s[i] <= 191

\* [ok, cps]: ok is FALSE where the decoder raises UnicodeDecodeError.
RECURSIVE Utf8Decode(_)
Utf8Decode(s) ==
    IF s = <<>> THEN [ok |-> TRUE, cps |-> <<>>]
    ELSE LET b == s[1]
             n == IF b < 128 THEN 1
                  ELSE IF b >= 194 /\ b <= 223 THEN 2
                  ELSE IF b >= 224 /\ b <= 239 THEN 3
                  ELSE IF b >= 240 /\ b <= 244 THEN 4
                  ELSE 0
             wellFormed ==
                 /\ n > 0
                 /\ \A i \in 2..n : IsCont(s, i)
                 /\ (b = 224 => s[2] >= 160)
                 /\ (b = 240 => s[2] >= 144)
                 /\ (b = 244 => s[2] <= 143)
         IN IF ~wellFormed THEN [ok |-> FALSE, cps |-> <<>>]
            ELSE LET c == IF n = 1 THEN b
                          ELSE IF n = 2 THEN (b - 192) * 64 + (s[2] - 128)
                          ELSE IF n = 3
                              THEN (b - 224) * 4096 + (s[2] - 128) * 64 + (s[3] - 128)
                          ELSE (b - 240) * 262144 + (s[2] - 128) * 4096
                               + (s[3] - 128) * 64 + (s[4] - 128)
                     rest == Utf8Decode(SubSeq(s, n + 1, Len(s)))
                 IN [ok |-> rest.ok, cps |-> <<c>> \o rest.cps]

(***************************************************************************)
(* Values and the class hierarchy isinstance() consults.                   *)
(***************************************************************************)
Val(k, v) == [k |-> k, v |-> v]

NoValue == Val("NoValue", <<>>)

\* The classes a value of kind k is an instance of.
Classes(k) ==
    CASE k = "bool" -> {"bool", "int"}
      [] k = "namedtuple" -> {"namedtuple", "tuple"}
      [] k = "str" -> {"str", "basestring"}
      [] k = "unicode" -> {"unicode", "basestring"}
      [] OTHER -> {k}

IsInstance(obj, classinfo) == Classes(obj.k) \cap classinfo # {}

(***************************************************************************)
(* Type definitions and registries.                                        *)
(***************************************************************************)
Type(code, type, ld, dp) == [code |-> code, type |-> type, load |-> ld, dump |-> dp]

basic_types == <<
    Type(255, {"EndOfList"}, "load_end_of_list", "dump_end_of_list"),
    Type(0, {"bytearray"}, "load_bytes", "dump_bytes"),
    Type(1, {}, "load_byte", "dump_byte"),
    Type(2, {"bool"}, "load_boolean", "dump_boolean"),
    Type(3, {"int"}, "load_integer", "dump_integer"),
    Type(4, {"long"}, "load_long", "dump_long"),
    Type(5, {}, "load_float", "dump_float"),
    Type(6, {"float"}, "load_double", "dump_double"),
    Type(7, {"basestring"}, "load_string", "dump_string"),
    Type(8, {"tuple"}, "load_vector", "dump_vector"),
    Type(9, {"list"}, "load_list", "dump_list"),
    Type(10, {"dict"}, "load_map", "dump_map") >>

set_type == Type(111, {"set"}, "load_set", "dump_set")

null_type == Type(47, {"NoneType"}, "load_null", "dump_null")

custom_types == basic_types \o <<set_type, null_type>>

Registries == {"basic", "custom"}

Types(name) ==
    IF name = "custom" THEN custom_types
    ELSE IF name = "made" THEN basic_types \o defs
    ELSE basic_types

\* The registry a routine uses when it is handed types=None.
DefaultTypes(types) == IF types = "None" THEN "basic" ELSE types

(***************************************************************************)
(* Encoding. A result is [out, err, fl]: the bytes written to fp, the      *)
(* exception raised ("" for none) and how many of the bytes written had    *)
(* been written when fp.flush() was last called (0: never).                *)
(***************************************************************************)
Wrote(out) == [out |-> out, err |-> "", fl |-> 0]

Raised(err) == [out |-> <<>>, err |-> err, fl |-> 0]

\* h was written, unflushed, and then r happened.
After(h, r) ==
    [out |-> h \o r.out, err |-> r.err, fl |-> IF r.fl > 0 THEN Len(h) + r.fl ELSE 0]

\* The size field was written (or raised), then the raw bytes.
ThenWrite(size, raw) == IF size.err # "" THEN size ELSE After(size.out, Wrote(raw))

dump_type_code(code) ==
    IF code \notin 0..255 THEN Raised("ValueError") ELSE Wrote(<<code>>)

dump_end_of_list(obj) == Wrote(<<>>)

dump_byte(n) ==
    IF ~(~BigLt(n, NegPow2(1)) /\ BigLt(n, Pow2(1))) THEN Raised("ValueError")
    ELSE Wrote(StructPack(1, n))

dump_boolean(obj) == dump_byte(IF obj.v.mag # <<>> THEN Big(1) ELSE Big(0))

\* dump_integer without its range test: the low four bytes go out.
dump_integer_low_bytes(n) == Wrote(StructPack(4, n))

dump_integer(n) ==
    IF ~(~BigLt(n, NegPow2(4)) /\ BigLt(n, Pow2(4))) THEN Raised("ValueError")
    ELSE Wrote(StructPack(4, n))

dump_size(n) == IF n.neg THEN Raised("ValueError") ELSE dump_integer(n)

dump_long(n) ==
    IF ~(~BigLt(n, NegPow2(8)) /\ BigLt(n, Pow2(8))) THEN Raised("ValueError")
    ELSE Wrote(StructPack(8, n))

dump_bytes(obj) == ThenWrite(dump_integer(Big(Len(obj.v))), obj.v)

\* dump_float(write, obj, types) is called as dump(obj, fp, types): float()
\* of the file object.
dump_float(obj) == Raised("TypeError")

dump_double(obj) == Wrote(DoublePack(obj.v))

\* size = len(raw); dump_size(size, fp); fp.write(raw)
WriteSized(raw) == ThenWrite(dump_size(Big(Len(raw))), raw)

\* dump_string with the size taken as the number of characters.
dump_string_chars(obj) ==
    IF obj.k = "str" /\ \E i \in 1..Len(obj.v) : obj.v[i] >= 128
        THEN Raised("UnicodeDecodeError")
    ELSE ThenWrite(dump_size(Big(Len(obj.v))), Utf8Encode(obj.v))

\* unicode(obj) decodes a str as ASCII.
dump_string(obj) ==
    IF obj.k = "str" /\ \E i \in 1..Len(obj.v) : obj.v[i] >= 128
        THEN Raised("UnicodeDecodeError")
    ELSE WriteSized(Utf8Encode(obj.v))

RECURSIVE Flatten(_)
Flatten(pairs) ==
    IF pairs = <<>> THEN <<>>
    ELSE <<Head(pairs)[1], Head(pairs)[2]>> \o Flatten(Tail(pairs))

\* dump's loop without its break: the last definition that accepts obj.
LastMatch(obj, tds) ==
    IF \E i \in 1..Len(tds) : IsInstance(obj, tds[i].type)
        THEN CHOOSE i \in 1..Len(tds) :
                 /\ IsInstance(obj, tds[i].type)
                 /\ \A j \in (i + 1)..Len(tds) : ~IsInstance(obj, tds[j].type)
    ELSE 0

\* The first definition of the registry that accepts obj (0: none).
FirstMatch(obj, tds) ==
    IF \E i \in 1..Len(tds) : IsInstance(obj, tds[i].type)
        THEN CHOOSE i \in 1..Len(tds) :
                 /\ IsInstance(obj, tds[i].type)
                 /\ \A j \in 1..(i - 1) : ~IsInstance(obj, tds[j].type)
    ELSE 0

RECURSIVE dump(_, _)
RECURSIVE SendAll(_, _)
RECURSIVE TdDump(_, _, _)

\* r was sent, then the rest.
Joined(r, rest) ==
    [out |-> r.out \o rest.out, err |-> rest.err,
     fl |-> IF rest.fl > 0 THEN Len(r.out) + rest.fl ELSE r.fl]

SendRest(r, elems, types) ==
    IF r.err # "" THEN r ELSE Joined(r, SendAll(elems, types))

\* iterdump(fp, types) fed the elements in order: each send is one dump; the
\* first exception ends the loop.
SendAll(elems, types) ==
    IF elems = <<>> THEN Wrote(<<>>)
    ELSE SendRest(dump(Head(elems), types), Tail(elems), types)

\* The size field was written (or raised), then the elements are sent.
ThenSend(size, elems, types) ==
    IF size.err # "" THEN size ELSE After(size.out, SendAll(elems, types))

dump_vector(obj, types) == ThenSend(dump_size(Big(Len(obj.v))), obj.v, types)

dump_list(obj, types) == SendAll(Append(obj.v, Val("EndOfList", <<>>)), types)

dump_map(obj, types) == ThenSend(dump_size(Big(Len(obj.v))), Flatten(obj.v), types)

dump_set(obj, types) == dump_list(obj, types)

dump_null(obj) == dump_end_of_list(obj)

TdDump(name, obj, types) ==
    CASE name = "dump_end_of_list" -> dump_end_of_list(obj)
      [] name = "dump_bytes" -> dump_bytes(obj)
      [] name = "dump_byte" -> dump_byte(obj.v)
      [] name = "dump_boolean" -> dump_boolean(obj)
      [] name = "dump_integer" -> dump_integer(obj.v)
      [] name = "dump_long" -> dump_long(obj.v)
      [] name = "dump_float" -> dump_float(obj)
      [] name = "dump_double" -> dump_double(obj)
      [] name = "dump_string" -> dump_string(obj)
      [] name = "dump_vector" -> dump_vector(obj, types)
      [] name = "dump_list" -> dump_list(obj, types)
      [] name = "dump_map" -> dump_map(obj, types)
      [] name = "dump_set" -> dump_set(obj, types)
      [] name = "dump_null" -> dump_null(obj)
      [] OTHER -> Raised("TypeError")

\* An encode that writes nothing unless td.dump accepts the whole value.
DumpWithAllOrNothing(code, td, obj, types) ==
    IF code.err # "" THEN code
    ELSE IF TdDump(td.dump, obj, types).err # ""
        THEN Raised(TdDump(td.dump, obj, types).err)
    ELSE After(code.out, TdDump(td.dump, obj, types))

\* dump_type_code(td.code, fp); td.dump(obj, fp, types)
DumpWith(code, td, obj, types) ==
    IF code.err # "" THEN code ELSE After(code.out, TdDump(td.dump, obj, types))

\* dump without its fp.flush().
FlushSkipped(r) == r

\* fp.flush(), which an exception skips.
Flush(r) == IF r.err # "" THEN r ELSE [r EXCEPT !.fl = Len(r.out)]

\* dump without the else of its loop: a value no definition accepts is
\* passed over.
DumpAsSilent(i, tds, obj, types) ==
    IF i = 0 THEN Wrote(<<>>)
    ELSE Flush(DumpWith(dump_type_code(tds[i].code), tds[i], obj, types))

\* The body of dump's loop for the definition found (tds[i]), or its else.
DumpAs(i, tds, obj, types) ==
    IF i = 0 THEN Raised("TypeError")
    ELSE Flush(DumpWith(dump_type_code(tds[i].code), tds[i], obj, types))

dump(obj, types) ==
    DumpAs(FirstMatch(obj, Types(DefaultTypes(types))), Types(DefaultTypes(types)),
           obj, DefaultTypes(types))

dumps(obj, types) == dump(obj, types)

(***************************************************************************)
(* Python's ==, as dict() and set() and the tests' assertEqual use it.     *)
(* nan says whether a NaN counts as equal to a NaN (it never does for ==). *)
(* A float equals an integer here only when both are zero.                 *)
(***************************************************************************)
NumKinds == {"bool", "int", "long"}

TupleKinds == {"tuple", "namedtuple"}

TextEq(a, b) ==
    CASE a.k = b.k -> a.v = b.v
      [] a.k = "unicode" /\ b.k = "str" ->
            a.v = b.v /\ \A i \in 1..Len(b.v) : b.v[i] < 128
      [] a.k = "str" /\ b.k = "unicode" ->
            a.v = b.v /\ \A i \in 1..Len(a.v) : a.v[i] < 128
      [] {a.k, b.k} = {"str", "bytearray"} -> a.v = b.v
      [] OTHER -> FALSE

RECURSIVE Eq(_, _, _)
Eq(a, b, nan) ==
    CASE a.k \in NumKinds /\ b.k \in NumKinds -> a.v = b.v
      [] a.k = "float" /\ b.k = "float" ->
            IF IsNaN(a.v) \/ IsNaN(b.v) THEN nan /\ IsNaN(a.v) /\ IsNaN(b.v)
            ELSE a.v = b.v \/ (IsZeroFloat(a.v) /\ IsZeroFloat(b.v))
      [] a.k = "float" /\ b.k \in NumKinds -> IsZeroFloat(a.v) /\ b.v.mag = <<>>
      [] a.k \in NumKinds /\ b.k = "float" -> IsZeroFloat(b.v) /\ a.v.mag = <<>>
      [] a.k \in {"str", "unicode", "bytearray"}
           /\ b.k \in {"str", "unicode", "bytearray"} -> TextEq(a, b)
      [] \/ a.k \in TupleKinds /\ b.k \in TupleKinds
         \/ a.k = "list" /\ b.k = "list" ->
            /\ Len(a.v) = Len(b.v)
            /\ \A i \in 1..Len(a.v) : Eq(a.v[i], b.v[i], nan)
      [] a.k = "set" /\ b.k = "set" ->
            /\ Len(a.v) = Len(b.v)
            /\ \A i \in 1..Len(a.v) : \E j \in 1..Len(b.v) : Eq(a.v[i], b.v[j], nan)
      [] a.k = "dict" /\ b.k = "dict" ->
            /\ Len(a.v) = Len(b.v)
            /\ \A i \in 1..Len(a.v) : \E j \in 1..Len(b.v) :
                   /\ Eq(a.v[i][1], b.v[j][1], nan)
                   /\ Eq(a.v[i][2], b.v[j][2], nan)
      [] a.k = "NoneType" /\ b.k = "NoneType" -> TRUE
      [] OTHER -> FALSE

PyEq(a, b) == Eq(a, b, FALSE)

RECURSIVE Hashable(_)
Hashable(x) ==
    CASE x.k \in {"bytearray", "list", "dict", "set"} -> FALSE
      [] x.k \in TupleKinds -> \A i \in 1..Len(x.v) : Hashable(x.v[i])
      [] OTHER -> TRUE

\* d[key] = value on the pairs of a dict: an equal key keeps its place.
DictPut(d, key, value) ==
    IF \E i \in 1..Len(d) : PyEq(d[i][1], key)
        THEN [i \in 1..Len(d) |-> IF PyEq(d[i][1], key) THEN <<d[i][1], value>> ELSE d[i]]
    ELSE Append(d, <<key, value>>)

RECURSIVE SetOf(_)
SetOf(elems) ==
    IF elems = <<>> THEN <<>>
    ELSE LET n == Len(elems)
             init == SetOf(SubSeq(elems, 1, n - 1))
         IN IF \E i \in 1..Len(init) : PyEq(init[i], elems[n]) THEN init
            ELSE Append(init, elems[n])

(***************************************************************************)
(* Decoding. fp is (b, pos); a result is [val, pos, err]: the value, the   *)
(* position fp is left at and the exception raised ("" for none).          *)
(***************************************************************************)
Got(val, pos) == [val |-> val, pos |-> pos, err |-> ""]

Failed(err, pos) == [val |-> NoValue, pos |-> pos, err |-> err]

Min(a, b) == IF a < b THEN a ELSE b

\* StreamStruct.unpack_read, before self.unpack: val is the bytes read.
unpack_read(b, pos, size) ==
    IF pos + size <= Len(b) THEN Got(SubSeq(b, pos + 1, pos + size), pos + size)
    ELSE Failed("EOFError", Len(b))

\* self.unpack(string)[0] of a signed integer field: val is the integer.
Unpacked(r) == IF r.err # "" THEN r ELSE Got(StructUnpack(r.val), r.pos)

\* The Python value of kind k that r holds.
Wrap(k, r) == IF r.err # "" THEN r ELSE Got(Val(k, r.val), r.pos)

UnsignedByte(r) == IF r.err # "" THEN r ELSE Got(r.val[1], r.pos)

load_type_code(b, pos) == UnsignedByte(unpack_read(b, pos, 1))

load_end_of_list(b, pos) == Got(Val("EndOfList", <<>>), pos)

load_byte(b, pos) == Unpacked(unpack_read(b, pos, 1))

BooleanOf(i) ==
    IF i.err # "" THEN i
    ELSE IF i.val = Big(0) THEN Got(Val("bool", Big(0)), i.pos)
    ELSE IF i.val = Big(1) THEN Got(Val("bool", Big(1)), i.pos)
    ELSE Failed("ValueError", i.pos)

load_boolean(b, pos) == BooleanOf(load_byte(b, pos))

load_integer(b, pos) == Unpacked(unpack_read(b, pos, 4))

\* val is the size as a number: it is below 2^31.
SizeOf(size) ==
    IF size.err # "" THEN size
    ELSE IF size.val.neg THEN Failed("ValueError", size.pos)
    ELSE Got(MagValue(size.val.mag), size.pos)

load_size(b, pos) == SizeOf(load_integer(b, pos))

load_long(b, pos) == Wrap("long", Unpacked(unpack_read(b, pos, 8)))

\* load_float(read, types=None) uses fp, a name bound nowhere.
load_float(b, pos) == Failed("NameError", pos)

DoubleOf(r) == IF r.err # "" THEN r ELSE Got(Val("float", DoubleUnpack(r.val)), r.pos)

load_double(b, pos) == DoubleOf(unpack_read(b, pos, 8))

\* bytearray(fp.read(n)): the bytes there are, up to n.
ReadUpTo(b, pos, n) ==
    Got(Val("bytearray", SubSeq(b, pos + 1, pos + Min(n, Len(b) - pos))),
        pos + Min(n, Len(b) - pos))

BytesOf(b, size) == IF size.err # "" THEN size ELSE ReadUpTo(b, size.pos, size.val)

load_bytes(b, pos) == BytesOf(b, load_size(b, pos))

Decoded(u, pos) ==
    IF u.ok THEN Got(Val("unicode", u.cps), pos) ELSE Failed("UnicodeDecodeError", pos)

StringOf(raw) == IF raw.err # "" THEN raw ELSE Decoded(Utf8Decode(raw.val.v), raw.pos)

load_string(b, pos) == StringOf(load_bytes(b, pos))

load_null(b, pos) == Got(Val("NoneType", <<>>), pos)

\* The first definition of the registry with this code (0: none).
FirstCode(code, tds) ==
    IF \E i \in 1..Len(tds) : tds[i].code = code
        THEN CHOOSE i \in 1..Len(tds) :
                 /\ tds[i].code = code
                 /\ \A j \in 1..(i - 1) : tds[j].code # code
    ELSE 0

RECURSIVE load(_, _, _)
RECURSIVE Take(_, _, _, _)
RECURSIVE Pairs(_, _, _, _, _)
RECURSIVE TdLoad(_, _, _, _)

\* What iterload makes of one load: an EOFError or an EndOfList ends it.
Yield(r) ==
    IF r.err = "EOFError" THEN Failed("StopIteration", r.pos)
    ELSE IF r.err # "" THEN r
    ELSE IF r.val.k = "EndOfList" THEN Failed("StopIteration", r.pos)
    ELSE r

\* One next() of a running iterload(fp, types) generator.
IterNext(b, pos, types) == Yield(load(b, pos, types))

Cons(val, rest) == IF rest.err # "" THEN rest ELSE Got(<<val>> \o rest.val, rest.pos)

TakeMore(b, types, limit, r) ==
    IF r.err = "StopIteration" THEN Got(<<>>, r.pos)
    ELSE IF r.err # "" THEN r
    ELSE Cons(r.val, Take(b, r.pos, types, IF limit > 0 THEN limit - 1 ELSE limit))

\* islice(iterload(fp, types), limit) and, for limit = -1, the whole of
\* iterload(fp, types): val is the sequence of the values yielded.
Take(b, pos, types, limit) ==
    IF limit = 0 THEN Got(<<>>, pos)
    ELSE TakeMore(b, types, limit, IterNext(b, pos, types))

PairsValue(b, types, n, d, key, value) ==
    IF value.err = "StopIteration" THEN Got(d, value.pos)
    ELSE IF value.err # "" THEN value
    ELSE IF ~Hashable(key.val) THEN Failed("TypeError", value.pos)
    ELSE Pairs(b, value.pos, types, n - 1, DictPut(d, key.val, value.val))

PairsKey(b, types, n, d, key) ==
    IF key.err = "StopIteration" THEN Got(d, key.pos)
    ELSE IF key.err # "" THEN key
    ELSE PairsValue(b, types, n, d, key, IterNext(b, key.pos, types))

\* dict(key_value_pair() for _ in xrange(n)) onto the pairs d: a
\* StopIteration out of either next() ends the generator expression.
Pairs(b, pos, types, n, d) ==
    IF n = 0 THEN Got(d, pos)
    ELSE PairsKey(b, types, n, d, IterNext(b, pos, types))

VectorOf(b, types, size) ==
    IF size.err # "" THEN size
    ELSE Wrap("tuple", Take(b, size.pos, DefaultTypes(types), size.val))

load_vector(b, pos, types) == VectorOf(b, types, load_size(b, pos))

load_list(b, pos, types) == Wrap("list", Take(b, pos, DefaultTypes(types), -1))

MapOf(b, types, size) ==
    IF size.err # "" THEN size
    ELSE Wrap("dict", Pairs(b, size.pos, DefaultTypes(types), size.val, <<>>))

load_map(b, pos, types) == MapOf(b, types, load_size(b, pos))

\* set(...) of the list read
SetOfList(r) ==
    IF r.err # "" THEN r
    ELSE IF \E i \in 1..Len(r.val.v) : ~Hashable(r.val.v[i]) THEN Failed("TypeError", r.pos)
    ELSE Got(Val("set", SetOf(r.val.v)), r.pos)

load_set(b, pos, types) == SetOfList(load_list(b, pos, types))

\* td.load, called with the arguments (fp, types).
TdLoad(name, b, pos, types) ==
    CASE name = "load_end_of_list" -> load_end_of_list(b, pos)
      [] name = "load_bytes" -> load_bytes(b, pos)
      [] name = "load_byte" -> Wrap("int", load_byte(b, pos))
      [] name = "load_boolean" -> load_boolean(b, pos)
      [] name = "load_integer" -> Wrap("int", load_integer(b, pos))
      [] name = "load_long" -> load_long(b, pos)
      [] name = "load_float" -> load_float(b, pos)
      [] name = "load_double" -> load_double(b, pos)
      [] name = "load_string" -> load_string(b, pos)
      [] name = "load_vector" -> load_vector(b, pos, types)
      [] name = "load_list" -> load_list(b, pos, types)
      [] name = "load_map" -> load_map(b, pos, types)
      [] name = "load_set" -> load_set(b, pos, types)
      [] name = "load_null" -> load_null(b, pos)
      [] OTHER -> Failed("TypeError", pos)

\* The types argument load hands to td.load: obj = td.load(fp).
LoadArgTypes(types) == "None"

\* load with an unknown code reported as the end of the data.
LoadAsEnd(i, tds, b, pos, types) ==
    IF i = 0 THEN Failed("EOFError", pos)
    ELSE TdLoad(tds[i].load, b, pos, LoadArgTypes(types))

\* The body of load's loop for the definition found (tds[i]), or its else.
LoadAs(i, tds, b, pos, types) ==
    IF i = 0 THEN Failed("ValueError", pos)
    ELSE TdLoad(tds[i].load, b, pos, LoadArgTypes(types))

LoadCode(code, tds, b, types) ==
    IF code.err # "" THEN code
    ELSE LoadAs(FirstCode(code.val, tds), tds, b, code.pos, types)

load(b, pos, types) ==
    LoadCode(load_type_code(b, pos), Types(DefaultTypes(types)), b, DefaultTypes(types))

loads(s, types) == load(s, 0, types)

(***************************************************************************)
(* The values the callers send and the streams the readers are given.      *)
(***************************************************************************)
PInt(n) == Val("int", Big(n))

PBool(t) == Val("bool", IF t THEN Big(1) ELSE Big(0))

PFloat(s, e, m) == Val("float", [s |-> s, e |-> e, m |-> m])

MinusTenth == PFloat(1, 1019, <<9, 153, 153, 153, 153, 153, 154>>)

NaN == PFloat(0, 2047, <<8, 0, 0, 0, 0, 0, 0>>)

None == Val("NoneType", <<>>)

Ab == Val("str", <<97, 98>>)

ScalarValues == {
    Val("bytearray", <<10, 11, 255>>), Val("bytearray", <<>>),
    PBool(TRUE), PInt(-1), Val("int", Pow2(4)), Val("int", NegPow2(4)),
    Val("long", [neg |-> FALSE, mag |-> <<4, 0, 0, 0, 0, 0, 0>>]),
    Val("long", Pow2(8)),
    MinusTenth, NaN,
    Val("unicode", <<32, 347, 8364>>), Ab, Val("str", <<197, 155>>),
    None, Val("function", <<>>) }

ContainerValues == {
    Val("tuple", <<MinusTenth, PBool(FALSE), PInt(27)>>),
    Val("tuple", <<>>),
    Val("tuple", <<PInt(27), Val("int", Pow2(4))>>),
    Val("tuple", <<PInt(27), Val("set", <<>>)>>),
    Val("namedtuple", <<PInt(1), PInt(2), PInt(3)>>),
    Val("list", <<MinusTenth, PBool(FALSE), PInt(27)>>),
    Val("list", <<>>),
    Val("list", <<Val("list", <<>>), PInt(27)>>),
    Val("list", <<NaN>>),
    Val("list", <<Val("set", <<PInt(27)>>)>>),
    Val("dict", <<<<Ab, MinusTenth>>, <<PBool(TRUE), PInt(27)>>>>),
    Val("dict", <<>>),
    Val("set", <<>>),
    Val("set", <<None>>) }

Values == ScalarValues \cup ContainerValues

\* The values sent through a writer session.
SessionValues == {
    PBool(TRUE), PInt(-1), Val("int", Pow2(4)),
    Val("bytearray", <<10, 11, 255>>),
    Val("list", <<>>),
    Val("list", <<Val("list", <<>>), PInt(27)>>),
    Val("tuple", <<PInt(27), Val("int", Pow2(4))>>),
    Val("tuple", <<PInt(27), Val("set", <<>>)>>),
    Val("tuple", <<Val("int", Pow2(4)), Val("function", <<>>)>>),
    Val("set", <<None>>),
    Val("function", <<>>) }

\* The writing calls of a run of sessions, and of a run of the codec.
MaxSends == 2

MaxDumps == 1

(***************************************************************************)
(* The calls.                                                              *)
(***************************************************************************)
Call(op, arg, ret, err, at, live) ==
    [op |-> op, arg |-> arg, ret |-> ret, err |-> err, at |-> at, live |-> live]

\* A stream holding b, a writer and a reader side with the registries ws
\* and rs, and n writing calls to come.
Begin(b, n, ws, rs) ==
    /\ buf = b
    /\ rpos = 0
    /\ flushed = Len(b)
    /\ wtypes = ws
    /\ rtypes = rs
    /\ defs = <<>>
    /\ wstate = "running"
    /\ rstate = "running"
    /\ sent = <<>>
    /\ torn = FALSE
    /\ recv = <<>>
    /\ last = Call("init", NoValue, NoValue, "", 0, TRUE)
    /\ quota = n

Start(b, n) == \E ws \in Registries, rs \in Registries : Begin(b, n, ws, rs)

Init == Start(<<>>, MaxSends)

\* What one dump(obj, fp, types) does to the stream.
Written(obj, r) ==
    /\ buf' = buf \o r.out
    /\ flushed' = IF r.fl > 0 THEN Len(buf) + r.fl ELSE flushed
    /\ sent' = IF r.err = "" THEN Append(sent, obj) ELSE sent
    /\ torn' = (torn \/ (r.err # "" /\ r.out # <<>>))

\* dump(obj, fp, wtypes)
Dump(obj) ==
    /\ quota > 0
    /\ quota' = quota - 1
    /\ Written(obj, dump(obj, wtypes))
    /\ last' = Call("dump", obj, NoValue, dump(obj, wtypes).err, Len(buf), TRUE)
    /\ UNCHANGED <<rpos, wtypes, rtypes, wstate, rstate, recv, defs>>

\* serializer.send(obj) on the coroutine iterdump(fp, wtypes) returned
Send(obj) ==
    /\ quota > 0
    /\ quota' = quota - 1
    /\ IF wstate = "running"
         THEN /\ Written(obj, dump(obj, wtypes))
              /\ last' = Call("send", obj, NoValue, dump(obj, wtypes).err, Len(buf), TRUE)
              /\ wstate' = IF last'.err = "" THEN "running" ELSE "failed"
         ELSE /\ last' = Call("send", obj, NoValue, "StopIteration", Len(buf), FALSE)
              /\ UNCHANGED <<buf, flushed, sent, torn, wstate>>
    /\ UNCHANGED <<rpos, wtypes, rtypes, rstate, recv, defs>>

\* serializer.close()
Close ==
    /\ wstate' = IF wstate = "running" THEN "closed" ELSE wstate
    /\ last' = Call("close", NoValue, NoValue, "", Len(buf), wstate = "running")
    /\ UNCHANGED <<buf, rpos, flushed, wtypes, rtypes, rstate, sent, torn, recv, quota, defs>>

\* What a read that returned or raised r does.
Returned(op, r) ==
    /\ rpos' = r.pos
    /\ recv' = IF r.err = "" THEN Append(recv, r.val) ELSE recv
    /\ last' = Call(op, NoValue, r.val, r.err, rpos, TRUE)

\* load(fp, rtypes)
Load ==
    /\ Returned("load", load(buf, rpos, rtypes))
    /\ UNCHANGED <<buf, flushed, wtypes, rtypes, wstate, rstate, sent, torn, quota, defs>>

\* next() on a generator that a StopIteration or another exception would
\* not finish: every call runs the loop of iterload again.
ReaderNextResumes ==
    /\ Returned("next", IterNext(buf, rpos, rtypes))
    /\ rstate' = IF last'.err = "" THEN "running" ELSE "finished"
    /\ UNCHANGED <<buf, flushed, wtypes, rtypes, wstate, sent, torn, quota, defs>>

\* deserializer.next() on the generator iterload(fp, rtypes) returned
ReaderNext ==
    /\ IF rstate = "running"
         THEN /\ Returned("next", IterNext(buf, rpos, rtypes))
              /\ rstate' = IF last'.err = "" THEN "running" ELSE "finished"
         ELSE /\ last' = Call("next", NoValue, NoValue, "StopIteration", rpos, FALSE)
              /\ UNCHANGED <<rpos, rstate, recv>>
    /\ UNCHANGED <<buf, flushed, wtypes, rtypes, wstate, sent, torn, quota, defs>>

\* Writer and reader sessions, and one-shot calls, on one stream.
Next ==
    \/ \E obj \in SessionValues : Dump(obj)
    \/ \E obj \in SessionValues : Send(obj)
    \/ Close
    \/ Load
    \/ ReaderNext

Spec == Init /\ [][Next]_vars

\* The codec on every value: one-shot dumps, then loads or a reader session.
InitCodec == Start(<<>>, MaxDumps)

NextCodec ==
    \/ \E obj \in Values : Dump(obj)
    \/ Load
    \/ ReaderNext

SpecCodec == InitCodec /\ [][NextCodec]_vars

(***************************************************************************)
(* Readers on streams written elsewhere: whole, cut short or malformed.    *)
(***************************************************************************)
\* One whole typed bytes sequence per type code of the table in
\* typedbytes/__init__.py, and the end-of-list marker.
CanonicalSamples == {
    <<0, 0, 0, 0, 2, 65, 66>>,
    <<1, 200>>,
    <<2, 1>>,
    <<3, 255, 255, 255, 255>>,
    <<4, 0, 4, 0, 0, 0, 0, 0, 0>>,
    <<5, 63, 128, 0, 0>>,
    <<6, 191, 185, 153, 153, 153, 153, 153, 154>>,
    <<7, 0, 0, 0, 2, 197, 155>>,
    <<8, 0, 0, 0, 2, 2, 0, 1, 127>>,
    <<9, 2, 1, 9, 255, 255>>,
    <<10, 0, 0, 0, 2, 2, 1, 3, 0, 0, 0, 27, 1, 5, 9, 255>>,
    <<255>> }

OtherStreams == {
    <<0, 255, 255, 255, 255, 1>>,
    <<7, 128, 0, 0, 0, 1>>,
    <<8, 255, 255, 255, 254, 2, 1>>,
    <<10, 255, 0, 0, 0, 2, 1, 2, 0>>,
    <<0, 0, 0, 0, 5, 1, 2>>,
    <<7, 0, 0, 0, 3, 97>>,
    <<7, 0, 0, 0, 1, 255>>,
    <<2, 2>>,
    <<8, 0, 0, 0, 2, 3, 0, 0, 0, 1, 255, 3, 0, 0, 0, 2>>,
    <<8, 127, 255, 255, 255, 2, 1>>,
    <<10, 0, 0, 0, 2, 3, 0, 0, 0, 1, 3, 0, 0, 0, 2, 3, 0, 0, 0, 3>>,
    <<10, 0, 0, 0, 2, 2, 1, 2, 0, 255, 2, 1>>,
    <<10, 0, 0, 0, 1, 9, 255, 2, 1>>,
    <<10, 0, 0, 0, 2, 2, 1, 2, 0, 3, 0, 0, 0, 1, 2, 1>>,
    <<9, 8, 0, 0, 0, 2, 2, 1>>,
    <<9, 9, 2, 1, 255, 3, 0, 0, 0, 27, 255, 2, 0>>,
    <<255, 3, 0, 0, 0, 1>>,
    <<0, 0, 0, 0, 3, 10, 11, 255, 111, 47, 255>>,
    <<111, 2, 1, 47, 255, 2, 0>>,
    <<9, 111, 255, 255>>,
    <<47, 47>>,
    <<42, 0>>,
    <<50, 0, 0, 0, 1, 65>>,
    <<200, 0, 0, 0, 0>> }

Prefixes(s) == {SubSeq(s, 1, n) : n \in 0..Len(s)}

DecodeStreams == UNION {Prefixes(s) : s \in CanonicalSamples \cup OtherStreams}

InitDecode == \E b \in DecodeStreams : Start(b, 0)

NextDecode ==
    \/ Load
    \/ ReaderNext

SpecDecode == InitDecode /\ [][NextDecode]_vars

(***************************************************************************)
(* What the properties speak of.                                           *)
(***************************************************************************)
\* The bytes the last writing call put on the stream.
WroteBytes == SubSeq(buf, last.at + 1, Len(buf))

IsWrite == last.op \in {"dump", "send"}

\* The last call was a load, or a next() on a running reader session.
IsRead == last.op \in {"load", "next"} /\ last.live

\* Where the first n values sent end on a stream no failed write has torn.
RECURSIVE Offset(_)
Offset(n) == IF n = 0 THEN 0 ELSE Offset(n - 1) + Len(dumps(sent[n], wtypes).out)

\* The last call read at the start of the i-th value sent.
ReadOf(i) == IsRead /\ ~torn /\ last.at = Offset(i - 1)

Children(x) ==
    CASE x.k \in {"tuple", "namedtuple", "list", "set"} -> x.v
      [] x.k = "dict" -> Flatten(x.v)
      [] OTHER -> <<>>

\* x and everything nested in it is of one of the kinds ks.
RECURSIVE OfKinds(_, _)
OfKinds(x, ks) ==
    x.k \in ks /\ \A i \in 1..Len(Children(x)) : OfKinds(Children(x)[i], ks)

DefaultKinds == {"bytearray", "bool", "int", "long", "float", "str", "unicode",
                 "tuple", "namedtuple", "list", "dict"}

InRange(n, w) == ~BigLt(n, NegPow2(w)) /\ BigLt(n, Pow2(w))

\* Every int of x fits 32 bits, every long 64 bits, and every str is ASCII.
RECURSIVE Fits(_)
Fits(x) ==
    /\ x.k = "int" => InRange(x.v, 4)
    /\ x.k = "long" => InRange(x.v, 8)
    /\ x.k = "str" => \A i \in 1..Len(x.v) : x.v[i] < 128
    /\ \A i \in 1..Len(Children(x)) : Fits(Children(x)[i])

\* No definition of the registry accepts x.
Unrecognized(x, types) ==
    \A i \in 1..Len(Types(types)) : ~IsInstance(x, Types(types)[i].type)

RECURSIVE HasUnrecognized(_, _)
HasUnrecognized(x, types) ==
    \/ Unrecognized(x, types)
    \/ \E i \in 1..Len(Children(x)) : HasUnrecognized(Children(x)[i], types)

\* The last read returned the i-th value sent (a NaN for a NaN).
ReturnedSent(i) == last.err = "" /\ Eq(last.ret, sent[i], TRUE)

(***************************************************************************)
(* C1. Round trip with the default registry.                               *)
(***************************************************************************)
\* C1 as stated: with the default registry on both sides, every dump of a
\* value of the default kinds (bytearray, bool, int, long, float, string,
\* tuple, list, dict and nestings) succeeds, and loading the bytes of a value
\* sent gives back a value equal to it (a NaN for a NaN).
C1_AsStated ==
    (wtypes = "basic" /\ rtypes = "basic") =>
        /\ (last.op = "dump" /\ OfKinds(last.arg, DefaultKinds)) => last.err = ""
        /\ \A i \in 1..Len(sent) : ReadOf(i) => ReturnedSent(i)

\* C1 amended: with the default registry on both sides, every dump of a value
\* of the default kinds whose ints fit 32 bits, whose longs fit 64 bits and
\* whose byte strings (str) are ASCII succeeds, and loading the bytes of a
\* value sent gives back a value equal to it (a NaN for a NaN) and leaves the
\* stream at the end of that value.
C1_RoundTrip ==
    (wtypes = "basic" /\ rtypes = "basic") =>
        /\ (last.op = "dump" /\ OfKinds(last.arg, DefaultKinds) /\ Fits(last.arg))
               => last.err = ""
        /\ \A i \in 1..Len(sent) : ReadOf(i) => ReturnedSent(i) /\ rpos = Offset(i)

C1_Witness ==
    /\ wtypes = "basic" /\ rtypes = "basic"
    /\ \E i \in 1..Len(sent) : ReadOf(i) /\ sent[i].k = "dict" /\ ReturnedSent(i)

(***************************************************************************)
(* C2. Round trip with an extended registry on both sides.                 *)
(***************************************************************************)
\* C2: with the registry basic_types + (set_type, null_type) given to the
\* writer and to the reader, loading the bytes of a value sent gives back a
\* value equal to it, also where a set or a None is nested in a container.
C2_ExtendedRoundTrip ==
    (wtypes = "custom" /\ rtypes = "custom") =>
        \A i \in 1..Len(sent) : ReadOf(i) => ReturnedSent(i)

(***************************************************************************)
(* C3. dump takes the first definition that accepts the value.             *)
(***************************************************************************)
\* The type code written heads the first definition, in registry order,
\* whose type the value is an instance of.
TagOfFirst(tds) ==
    \A i \in 1..Len(tds) : tds[i].code = WroteBytes[1] =>
        /\ IsInstance(last.arg, tds[i].type)
        /\ \A j \in 1..(i - 1) : ~IsInstance(last.arg, tds[j].type)

\* C3: dump writes the code of the first definition, in registry order, that
\* accepts the value by isinstance: a bool goes out under code 2 and not 3,
\* and a namedtuple goes out byte for byte as the tuple of its elements.
C3_FirstMatch ==
    (last.op = "dump" /\ WroteBytes # <<>>) =>
        /\ TagOfFirst(Types(wtypes))
        /\ last.arg.k = "bool" => WroteBytes[1] = 2
        /\ (last.arg.k = "namedtuple" /\ last.err = "")
               => WroteBytes = dumps(Val("tuple", last.arg.v), wtypes).out

C3_Witness ==
    /\ last.op = "dump" /\ last.err = "" /\ last.arg.k = "namedtuple"
    /\ WroteBytes[1] = 8

(***************************************************************************)
(* C4. A type code no definition has.                                      *)
(***************************************************************************)
NoDefinition(code, tds) == \A i \in 1..Len(tds) : tds[i].code # code

C5_AsStated ==
    (IsWrite /\ HasUnrecognized(last.arg, wtypes)) => last.err = "TypeError"

\* C5 amended: a dump, or a send on a writer session that is still running,
\* of a value no definition accepts raises TypeError and writes nothing; of a
\* value that holds one at some depth it fails, with TypeError unless an
\* earlier part of the value fails its own validation first; a send on a
\* session that has failed or was closed raises StopIteration.
C5_UnrecognizedValue ==
    /\ (IsWrite /\ last.live /\ Unrecognized(last.arg, wtypes))
           => last.err = "TypeError" /\ WroteBytes = <<>>
    /\ (IsWrite /\ last.live /\ HasUnrecognized(last.arg, wtypes))
           => last.err # "" /\ (Fits(last.arg) => last.err = "TypeError")
    /\ (last.op = "send" /\ ~last.live)
           => last.err = "StopIteration" /\ WroteBytes = <<>>

C5_Witness ==
    /\ last.op = "send" /\ last.live
    /\ ~Unrecognized(last.arg, wtypes) /\ HasUnrecognized(last.arg, wtypes)
    /\ last.err = "TypeError" /\ WroteBytes # <<>>

(***************************************************************************)
(* C6. Exhaustion and truncation.                                          *)
(***************************************************************************)
\* C6: a reader session reports exhaustion (StopIteration) only where the
\* stream ends on a value boundary or an end-of-list marker stands; a stream
\* that ends inside a value is a failure of another kind.
C6_ExhaustionOnlyAtBoundary ==
    (last.op = "next" /\ last.live /\ last.err = "StopIteration") =>
        \/ last.at = Len(buf)
        \/ buf[last.at + 1] = 255

(***************************************************************************)
(* C7. Framing of lists.                                                   *)
(***************************************************************************)
RECURSIVE Encodings(_, _)
Encodings(elems, types) ==
    IF elems = <<>> THEN <<>>
    ELSE dumps(Head(elems), types).out \o Encodings(Tail(elems), types)

\* The last read returned the list sent as the i-th value and stopped after
\* its end marker.
ReturnedList(i) ==
    /\ last.err = ""
    /\ last.ret.k = "list"
    /\ Eq(last.ret, sent[i], TRUE)
    /\ rpos = Offset(i)

\* C7: a list goes out as code 9, the encodings of its elements in order,
\* and the end marker 255; with the writer's registry, a read at the start
\* of a list sent returns that list, the elements in order, and stops after
\* the end marker; a reader session at the end of the stream reports
\* exhaustion.
C7_ListFraming ==
    /\ (last.op = "dump" /\ last.arg.k = "list" /\ last.err = "")
           => WroteBytes = <<9>> \o Encodings(last.arg.v, wtypes) \o <<255>>
    /\ wtypes = rtypes =>
           \A i \in 1..Len(sent) : (ReadOf(i) /\ sent[i].k = "list") => ReturnedList(i)
    /\ (last.op = "next" /\ last.live /\ last.at = Len(buf))
           => last.err = "StopIteration"

(***************************************************************************)
(* C8. Containers with a length prefix.                                    *)
(***************************************************************************)
\* Where n values that follow one another from pos end, each one decoded
\* whole; -1 when one of them fails or is an end marker.
RECURSIVE Strict(_, _, _, _)
StrictStep(b, types, n, r) ==
    IF r.err # "" \/ r.val.k = "EndOfList" THEN -1
    ELSE Strict(b, r.pos, types, n - 1)

Strict(b, pos, types, n) ==
    IF n = 0 THEN pos ELSE StrictStep(b, types, n, load(b, pos, types))

\* The same for n pairs of a key and a value.
RECURSIVE StrictPairs(_, _, _, _)
StrictPairsStep(b, types, n, end) ==
    IF end = -1 THEN -1 ELSE StrictPairs(b, end, types, n - 1)

StrictPairs(b, pos, types, n) ==
    IF n = 0 THEN pos ELSE StrictPairsStep(b, types, n, Strict(b, pos, types, 2))

\* The count that follows the type code read by the last call.
DeclaredSize == MagValue(SubSeq(buf, last.at + 2, last.at + 5))

\* C8: a load that returns a tuple has decoded exactly the declared number
\* of elements, and one that returns a dict exactly the declared number of
\* key/value pairs; it never returns a container with fewer.
C8_ExactCount ==
    (last.op = "load" /\ last.err = "") =>
        /\ last.ret.k = "tuple" =>
               /\ Len(last.ret.v) = DeclaredSize
               /\ rpos = Strict(buf, last.at + 5, rtypes, DeclaredSize)
        /\ last.ret.k = "dict" =>
               rpos = StrictPairs(buf, last.at + 5, rtypes, DeclaredSize)

(***************************************************************************)
(* C9. Scalars with a size prefix.                                         *)
(***************************************************************************)
\* What a load of code 0 or 7 must do with avail bytes after the code.
SizedOutcome(avail) ==
    IF avail < 4 THEN last.err = "EOFError"
    ELSE IF buf[last.at + 2] >= 128 THEN last.err = "ValueError"
    ELSE IF avail - 4 < DeclaredSize THEN last.err = "EOFError"
    ELSE /\ rpos = last.at + 5 + DeclaredSize
         /\ IF buf[last.at + 1] = 0
                THEN /\ last.err = ""
                     /\ last.ret = Val("bytearray", SubSeq(buf, last.at + 6, rpos))
                ELSE last.err \in {"", "UnicodeDecodeError"}

\* C9: a load of a byte sequence (code 0) or a string (code 7) reads the
\* four-byte size, fails with ValueError when it is negative, then takes
\* exactly that many bytes; it fails with EOFError when the stream holds
\* fewer.
C9_SizedScalar ==
    (last.op = "load" /\ last.at < Len(buf) /\ buf[last.at + 1] \in {0, 7})
        => SizedOutcome(Len(buf) - last.at - 1)

(***************************************************************************)
(* C10. Every code of the default registry can be decoded.                 *)
(***************************************************************************)
\* C10: with the default registry, a load of a whole value of any of the
\* codes 0..10 returns a value and consumes the bytes of that value.
C10_EveryCodeDecodes ==
    (last.op = "load" /\ rtypes = "basic" /\ last.at = 0 /\ buf \in CanonicalSamples)
        => last.err = "" /\ rpos = Len(buf)

(***************************************************************************)
(* C11. The application type codes 50 to 200.                              *)
(***************************************************************************)
application_type_codes == 50..200

\* The code read by the last call is followed by a whole payload of the
\* shape of code 0: a size that is not negative and that many bytes.
WholeSizedPayload ==
    /\ Len(buf) - last.at - 1 >= 4
    /\ buf[last.at + 2] < 128
    /\ Len(buf) - last.at - 5 >= DeclaredSize

\* C11: with the default registry, a load of a code in 50..200 followed by
\* a four-byte size and that many bytes returns those bytes as a byte
\* sequence and consumes them; it does not fail.
C11_ApplicationAlias ==
    (/\ last.op = "load" /\ rtypes = "basic"
     /\ last.at < Len(buf) /\ buf[last.at + 1] \in application_type_codes
     /\ WholeSizedPayload)
        => /\ last.err = ""
           /\ rpos = last.at + 5 + DeclaredSize
           /\ last.ret = Val("bytearray", SubSeq(buf, last.at + 6, rpos))

(***************************************************************************)
(* C12. Order and flushing of a writer session.                            *)
(***************************************************************************)
\* C12: as long as no write has failed part-way, the stream holds the
\* one-shot encodings, under the writer's registry, of the values written,
\* in the order of the calls, and all of it has been flushed; a send that
\* returns has appended the encoding of its value and flushed the stream; a
\* close, first or repeated, raises nothing and writes nothing.
C12_OrderAndFlush ==
    /\ ~torn => buf = Encodings(sent, wtypes) /\ flushed = Len(buf)
    /\ (last.op = "send" /\ last.err = "")
           => /\ WroteBytes = dumps(last.arg, wtypes).out
              /\ flushed = Len(buf)
    /\ last.op = "close" => last.err = "" /\ Len(buf) = last.at

\* The second of two different values written goes out on a running writer
\* session.
C12_Witness ==
    /\ last.op = "send" /\ last.live /\ last.err = ""
    /\ wstate = "running"
    /\ Len(sent) = 2 /\ sent[1] # sent[2]
    /\ last.at > 0 /\ flushed = Len(buf)

(***************************************************************************)
(* C13. The 32-bit integer field.                                          *)
(***************************************************************************)
\* Integers at and around the ends of the signed 32-bit range.
IntegerValues == {
    PInt(0), PInt(1), PInt(-1), PInt(27), PInt(255), PInt(256), PInt(-256),
    PInt(65536), PInt(2147483647), PInt(-2147483647),
    Val("int", NegPow2(4)), Val("int", Pow2(4)),
    Val("int", [neg |-> TRUE, mag |-> <<128, 0, 0, 1>>]),
    Val("int", [neg |-> FALSE, mag |-> <<255, 255, 255, 255>>]),
    Val("int", [neg |-> FALSE, mag |-> <<1, 0, 0, 0, 0>>]),
    Val("int", [neg |-> TRUE, mag |-> <<1, 0, 0, 0, 27>>]) }

\* One dump of an integer, then loads or a reader session.
InitInteger == Start(<<>>, MaxDumps)

NextInteger ==
    \/ \E obj \in IntegerValues : Dump(obj)
    \/ Load
    \/ ReaderNext

SpecInteger == InitInteger /\ [][NextInteger]_vars

\* Adding the bytes a and b from byte i down, with carry c, gives zeros and
\* a carry out of the first byte: a + b = 2^32.
RECURSIVE SumsToZero(_, _, _, _)
SumsToZero(a, b, i, c) ==
    IF i = 0 THEN c = 1
    ELSE /\ (a[i] + b[i] + c) % 256 = 0
         /\ SumsToZero(a, b, i - 1, (a[i] + b[i] + c) \div 256)

\* s is the four-byte big-endian two's-complement form of n.
IsTwosComplement(s, n) ==
    /\ Len(s) = 4
    /\ IF n.neg THEN s[1] >= 128 /\ SumsToZero(s, PadLeft(n.mag, 4), 4, 0)
       ELSE s[1] < 128 /\ StripZeros(s) = n.mag

\* C13: a dump of an int n with -2^31 <= n < 2^31 writes code 3 and the four
\* bytes of the big-endian two's-complement form of n (FF FF FF FF for -1),
\* and a read of those bytes returns the int n; a dump of an int outside that
\* range raises ValueError and writes no byte after the code: no int goes
\* out cut down to its low 32 bits.
C13_IntegerField ==
    /\ (last.op = "dump" /\ last.arg.k = "int") =>
           IF InRange(last.arg.v, 4)
               THEN /\ last.err = ""
                    /\ Len(WroteBytes) = 5 /\ WroteBytes[1] = 3
                    /\ IsTwosComplement(Tail(WroteBytes), last.arg.v)
                    /\ last.arg = PInt(-1) => WroteBytes = <<3, 255, 255, 255, 255>>
               ELSE last.err = "ValueError" /\ WroteBytes = <<3>>
    /\ (ReadOf(1) /\ Len(sent) = 1 /\ sent[1].k = "int")
           => last.err = "" /\ last.ret = sent[1] /\ rpos = 5

\* The least int of the range has gone out and has been read back.
C13_Witness ==
    /\ Len(sent) = 1 /\ sent[1] = Val("int", NegPow2(4))
    /\ buf = <<3, 128, 0, 0, 0>>
    /\ ReadOf(1) /\ last.ret = sent[1]

(***************************************************************************)
(* C14. Type definitions: Type(code, type, load, dump), and the            *)
(* constructors _make and _replace that Type inherits from its namedtuple. *)
(***************************************************************************)
valid_type_codes == 0..255

Class(name) == Val("type", name)

Routine(name) == Val("function", name)

\* The integer an int or a bool of a few digits stands for.
Number(n) == IF n.neg THEN 0 - MagValue(n.mag) ELSE MagValue(n.mag)

\* code in valid_type_codes
IsValidCode(n) == Len(n.mag) <= 1 /\ Number(n) \in valid_type_codes

RECURSIVE isclassinfo(_)
isclassinfo(classinfo) ==
    IF IsInstance(classinfo, {"tuple"})
        THEN \A i \in 1..Len(classinfo.v) : isclassinfo(classinfo.v[i])
    ELSE IsInstance(classinfo, {"type", "classobj"})

callable(x) == x.k \in {"function", "type"}

\* The exception validate_type_definition raises ("" for none).
validate_type_definition(td) ==
    IF ~IsInstance(td.code, {"int"}) THEN "TypeError"
    ELSE IF ~IsValidCode(td.code.v) THEN "ValueError"
    ELSE IF ~isclassinfo(td.type) THEN "TypeError"
    ELSE IF ~callable(td.load) THEN "TypeError"
    ELSE IF ~callable(td.dump) THEN "TypeError"
    ELSE ""

\* The classes of a class or of a tuple of classes.
RECURSIVE ClassSet(_)
ClassSet(classinfo) ==
    IF classinfo.k = "tuple"
        THEN UNION {ClassSet(classinfo.v[i]) : i \in 1..Len(classinfo.v)}
    ELSE {classinfo.v}

\* The name under which td.load and td.dump are called; None cannot be.
RoutineName(x) == IF x.k = "function" THEN x.v ELSE "None"

\* The fields given, as the registries hold them.
Fields(td) ==
    Type(Number(td.code.v), ClassSet(td.type), RoutineName(td.load), RoutineName(td.dump))

IntCodes == {PInt(0), PInt(112), PInt(255), PInt(256), PInt(-1), PBool(TRUE)}

Codes == IntCodes \cup {Val("long", Big(112)), Val("str", <<49>>)}

Classinfos == {
    Class("set"),
    Val("tuple", <<>>),
    Val("tuple", <<Class("set"), Val("tuple", <<Class("NoneType")>>)>>),
    PInt(27),
    Val("tuple", <<Class("set"), PInt(27)>>) }

Loaders == {Routine("load_set"), None}

Dumpers == {Routine("dump_set"), None}

\* How many definitions the callers make.
MaxDefs == 1

\* Type(code, type, load, dump): __init__ validates the new definition.
NewType(td) ==
    /\ Len(defs) < MaxDefs
    /\ defs' = IF validate_type_definition(td) = "" THEN Append(defs, Fields(td))
               ELSE defs
    /\ last' = Call("Type", Val("Type", td), NoValue, validate_type_definition(td),
                    Len(buf), TRUE)
    /\ UNCHANGED <<buf, rpos, flushed, wtypes, rtypes, wstate, rstate, sent, torn,
                   recv, quota>>

\* set_type._replace(code=code, load=ld, dump=dp): _make builds the new
\* definition with tuple.__new__, and __init__ is not called.
Replace(code, ld, dp) ==
    /\ Len(defs) < MaxDefs
    /\ defs' = Append(defs, Type(Number(code.v), set_type.type,
                                 RoutineName(ld), RoutineName(dp)))
    /\ last' = Call("_replace",
                    Val("Type", [code |-> code, type |-> Class("set"),
                                 load |-> ld, dump |-> dp]),
                    NoValue, "", Len(buf), TRUE)
    /\ UNCHANGED <<buf, rpos, flushed, wtypes, rtypes, wstate, rstate, sent, torn,
                   recv, quota>>

TypeValues == {Val("set", <<>>), Val("set", <<PInt(27)>>), None, PInt(27)}

\* Callers that make definitions, append them to basic_types, and dump and
\* load with that registry.
InitType == Begin(<<>>, MaxDumps, "made", "made")

NextType ==
    \/ \E code \in Codes, type \in Classinfos, ld \in Loaders, dp \in Dumpers :
           NewType([code |-> code, type |-> type, load |-> ld, dump |-> dp])
    \/ \E code \in IntCodes, ld \in Loaders, dp \in Dumpers : Replace(code, ld, dp)
    \/ \E obj \in TypeValues : Dump(obj)
    \/ Load
    \/ ReaderNext

SpecType == InitType /\ [][NextType]_vars

\* The fields are not those of a definition: the code is no integer of
\* 0..255, the type is no class or tuple of classes, or a routine cannot be
\* called.
Malformed(td) ==
    \/ td.code.k \notin {"int", "bool", "long"}
    \/ ~IsValidCode(td.code.v)
    \/ ~OfKinds(td.type, {"type", "tuple"})
    \/ td.load.k # "function"
    \/ td.dump.k # "function"

\* C14: a construction of a Type from malformed fields raises, so that
\* every Type a registry can hold has a code in 0..255 and a load and a dump
\* that can be called, and no dump or load is the first to find a definition
\* malformed.
C14_EagerValidation ==
    /\ (last.op = "Type" /\ Malformed(last.arg.v)) => last.err # ""
    /\ \A i \in 1..Len(defs) :
           /\ defs[i].code \in valid_type_codes
           /\ defs[i].load # "None"
           /\ defs[i].dump # "None"

(***************************************************************************)
(* C15. A reader session that has reported exhaustion.                     *)
(***************************************************************************)
\* C15: a next() that reports exhaustion leaves the reader session
\* finished; a finished session stays finished, and every later next() on
\* it reports exhaustion again and reads nothing, whatever bytes follow on
\* the stream or have been appended and flushed since.
C15_ExhaustionIsPermanent ==
    /\ [][(last'.op = "next" /\ last'.err = "StopIteration")
              => rstate' = "finished"]_vars
    /\ [][rstate = "finished" =>
              /\ rstate' = "finished"
              /\ last'.op = "next" =>
                     /\ last'.err = "StopIteration"
                     /\ rpos' = rpos
                     /\ recv' = recv]_vars

\* A session that found the stream empty is asked again after a writer has
\* appended and flushed a value.
C15_Witness ==
    /\ last.op = "next" /\ ~last.live /\ last.err = "StopIteration"
    /\ rstate = "finished"
    /\ rpos = 0 /\ recv = <<>>
    /\ Len(sent) >= 1 /\ flushed = Len(buf)

(***************************************************************************)
(* C16. What a dump that fails leaves on the stream.                       *)
(***************************************************************************)
\* The first of the elements whose dump fails.
FirstFailing(elems, types) ==
    CHOOSE j \in 1..Len(elems) :
        /\ dumps(elems[j], types).err # ""
        /\ \A i \in 1..(j - 1) : dumps(elems[i], types).err = ""

\* The bytes that go before the elements of a container of a few elements.
Header(x) ==
    CASE x.k \in {"tuple", "namedtuple"} -> <<8, 0, 0, 0, Len(x.v)>>
      [] x.k = "dict" -> <<10, 0, 0, 0, Len(x.v)>>
      [] x.k = "list" -> <<9>>
      [] x.k = "set" -> <<111>>

\* The header, the elements before the j-th in full, and what the dump of
\* the j-th wrote before it failed.
PartWritten(x, j, types) ==
    Header(x) \o Encodings(SubSeq(Children(x), 1, j - 1), types)
              \o dumps(Children(x)[j], types).out

\* C16: a dump that fails for a value no definition accepts writes nothing;
\* every other dump that fails has written the code of the definition that
\* accepted the value before the failure: for a scalar (an int or long out
\* of range, a str that is not ASCII) that code alone, none of it flushed;
\* for a container its header, the whole encodings of the elements before
\* the failing one, and what the failing element's own dump wrote.
C16_NotAtomic ==
    (last.op = "dump" /\ last.err # "") =>
        IF Unrecognized(last.arg, wtypes)
            THEN last.err = "TypeError" /\ WroteBytes = <<>>
        ELSE /\ WroteBytes # <<>>
             /\ TagOfFirst(Types(wtypes))
             /\ IF Children(last.arg) = <<>>
                    THEN Len(WroteBytes) = 1 /\ flushed <= last.at
                ELSE WroteBytes = PartWritten(last.arg,
                         FirstFailing(Children(last.arg), wtypes), wtypes)

\* The dump of (27, 2**31) has failed on its second element: the stream holds
\* the tuple's header, the whole of 27 and the code of the second element,
\* which no flush has covered.
C16_Witness ==
    /\ last.op = "dump" /\ last.err = "ValueError"
    /\ last.arg = Val("tuple", <<PInt(27), Val("int", Pow2(4))>>)
    /\ WroteBytes = <<8, 0, 0, 0, 2, 3, 0, 0, 0, 27, 3>>
    /\ flushed = Len(buf) - 1

====
